---- MODULE Spec2Model ----
(***************************************************************************)
(* A model of metpy/readers/mesonet.py: the remote fetch with its LRU      *)
(* cache, the Mesonet text-file reader with time conversion, renaming and  *)
(* station lookup, the two-day assembly, and get_last_time.                *)
(*                                                                         *)
(* Conventions.  A Python call that raises is modelled by a result record  *)
(* whose status names the exception; "ok" is a normal return.  Station     *)
(* identifiers are modelled by integer codes whose order is the order of   *)
(* the identifier strings (searchsorted only compares them).               *)
(***************************************************************************)
EXTENDS Integers, Sequences, FiniteSets, TLC

VARIABLES
    dt,        \* the module-level name `dt` as _fetch_mesonet_data sees it
    cache,     \* the lru_cache around _fetch_mesonet_data, least recent first
    log,       \* history: one record per call of _fetch_mesonet_data
    out,       \* result of the last remote_mesonet_data call
    fh,        \* a text stream handed to read_mesonet_data
    data,      \* result of the last read_mesonet_data call
    last,      \* result of the last get_last_time call
    now,       \* the UTC clock of the polling scenario
    replays,   \* number of explicit-date calls made in the polling scenario
    lastUse,   \* history: for every key used, the number of the call that used it last
    mesonet_station_table
               \* the data lines of the module-level station table text

vars == <<dt, cache, log, out, fh, data, last, now, replays, lastUse,
          mesonet_station_table>>

(***************************************************************************)
(* Bounds of the model.                                                    *)
(***************************************************************************)
MaxCalls == 4
MaxRows == 2
MaxTicks == 22
MaxReplays == 2

(***************************************************************************)
(* Python values.                                                          *)
(***************************************************************************)
None == "None"

DateTime(y, mo, d, h, mi, s, us) ==
    [year |-> y, month |-> mo, day |-> d, hour |-> h, minute |-> mi,
     second |-> s, microsecond |-> us]

\* stands for date_time=None and for "no datetime" in a result
NoDate == DateTime(0, 0, 0, 0, 0, 0, 0)

Digit(d) ==
    CASE d = 0 -> "0" [] d = 1 -> "1" [] d = 2 -> "2" [] d = 3 -> "3"
      [] d = 4 -> "4" [] d = 5 -> "5" [] d = 6 -> "6" [] d = 7 -> "7"
      [] d = 8 -> "8" [] d = 9 -> "9"

RECURSIVE ZeroPad(_, _)
\* '%0<w>d' % n, for 0 <= n
ZeroPad(n, w) ==
    IF w <= 1 /\ n < 10 THEN Digit(n)
    ELSE ZeroPad(n \div 10, w - 1) \o Digit(n % 10)

\* date_time.strftime('%Y%m%d'); Python 2 raises ValueError for a year
\* before 1900
strftime_Ymd(d) ==
    IF d.year < 1900 THEN [status |-> "ValueError", value |-> ""]
    ELSE [status |-> "ok",
          value |-> ZeroPad(d.year, 4) \o ZeroPad(d.month, 2) \o ZeroPad(d.day, 2)]

\* date_time.strftime('%Y%m%d%H%M'), with the same limit on the year
strftime_YmdHM(d) ==
    IF d.year < 1900 THEN [status |-> "ValueError", value |-> ""]
    ELSE [status |-> "ok",
          value |-> strftime_Ymd(d).value \o ZeroPad(d.hour, 2)
                        \o ZeroPad(d.minute, 2)]

\* str.lower on the site names of the model
lower(s) ==
    CASE s = "NRMN" -> "nrmn"
      [] OTHER -> s

\* the number of days of a month of the proleptic Gregorian calendar
DaysInMonth(y, mo) ==
    IF mo = 2
    THEN (IF y % 4 = 0 /\ (y % 100 # 0 \/ y % 400 = 0) THEN 29 ELSE 28)
    ELSE IF mo \in {4, 6, 9, 11} THEN 30
    ELSE 31

\* datetime.MINYEAR and datetime.MAXYEAR
MINYEAR == 1
MAXYEAR == 9999

RECURSIVE SetDay(_, _)
\* d with its day replaced by `day`, counted from the start of d's month and
\* carried into the months before or after.  datetime arithmetic raises
\* OverflowError when the result leaves the years MINYEAR..MAXYEAR.
SetDay(d, day) ==
    IF day < 1
    THEN LET y == IF d.month = 1 THEN d.year - 1 ELSE d.year
             mo == IF d.month = 1 THEN 12 ELSE d.month - 1
         IN  IF y < MINYEAR THEN [status |-> "OverflowError", value |-> NoDate]
             ELSE SetDay([d EXCEPT !.year = y, !.month = mo],
                         day + DaysInMonth(y, mo))
    ELSE IF day > DaysInMonth(d.year, d.month)
    THEN LET y == IF d.month = 12 THEN d.year + 1 ELSE d.year
             mo == IF d.month = 12 THEN 1 ELSE d.month + 1
         IN  IF y > MAXYEAR THEN [status |-> "OverflowError", value |-> NoDate]
             ELSE SetDay([d EXCEPT !.year = y, !.month = mo],
                         day - DaysInMonth(d.year, d.month))
    ELSE [status |-> "ok", value |-> [d EXCEPT !.day = day]]

\* d + timedelta(minutes=m): the instant, or OverflowError
AddMinutes(d, m) ==
    LET tot == d.hour * 60 + d.minute + m
    IN  SetDay([d EXCEPT !.hour = (tot % 1440) \div 60, !.minute = tot % 60],
               d.day + (tot \div 1440))

\* d - timedelta(days=n): the instant, or OverflowError
SubDays(d, n) == SetDay(d, d.day - n)

(***************************************************************************)
(* Module constants (mesonet.py lines 20-32).                              *)
(***************************************************************************)
\* mesonet_inv_var_map.get(key, default)
mesonet_inv_var_map(key, default) ==
    CASE key = "TAIR" -> "temperature"
      [] key = "RELH" -> "relative humidity"
      [] key = "WSPD" -> "wind speed"
      [] key = "WDIR" -> "wind direction"
      [] key = "RAIN" -> "rainfall"
      [] key = "PRES" -> "pressure"
      [] key = "STID" -> "site"
      [] key = "SRAD" -> "solar radiation"
      [] key = "WMAX" -> "wind gusts"
      [] OTHER -> default

BAD_DATA_LIMIT == -990
FUTURE_OBSERVATION == -996

(***************************************************************************)
(* Text streams.  A Mesonet file is a title line, a line of whitespace     *)
(* separated numbers holding the file's date, a line of column names and   *)
(* the data rows.                                                          *)
(***************************************************************************)
Stream(title, info, names, rows) ==
    [title |-> title, info |-> info, names |-> names, rows |-> rows]

NoStream == Stream("", <<>>, <<>>, <<>>)

FileColumns == <<"STID", "TIME", "TAIR">>

\* the date line of a file of the given day of November 2008
InfoLine(day) == <<101, 2008, 11, day, 0, 0, 0>>

(***************************************************************************)
(* The remote server: the files it serves, by directory and name.          *)
(***************************************************************************)
ServerFiles ==
    { [dir |-> "/mts/2008/11/19/", name |-> "20081119nrmn.mts",
       content |-> Stream("mts19", InfoLine(19), FileColumns,
                          << <<2, 0, 21>>, <<2, 1435, -999>> >>)],
      [dir |-> "/mts/2008/11/20/", name |-> "20081120nrmn.mts",
       content |-> Stream("mts20", InfoLine(20), FileColumns,
                          << <<2, 0, 18>>, <<2, 5, 17>>, <<2, 10, -996>> >>)],
      [dir |-> "/mdf/2008/11/19/", name |-> "200811190000.mdf",
       content |-> Stream("mdf19-0000", InfoLine(19), FileColumns,
                          << <<2, 0, 20>>, <<4, 0, -998>> >>)],
      [dir |-> "/mdf/2008/11/20/", name |-> "200811200000.mdf",
       content |-> Stream("mdf20-0000", InfoLine(20), FileColumns,
                          << <<2, 0, 18>>, <<4, 0, 19>>, <<6, 0, -995>> >>)],
      [dir |-> "/mdf/2008/11/20/", name |-> "200811200005.mdf",
       content |-> Stream("mdf20-0005", InfoLine(20), FileColumns,
                          << <<2, 5, 17>>, <<4, 5, 19>>, <<6, 5, 16>> >>)] }

\* baseurl % (path+fname, fname)
baseurl(dirname, filename) ==
    "http://www.mesonet.org/public/data/getfile.php?dir=" \o dirname
        \o "&filename=" \o filename

\* urllib2.urlopen(url).read(): the body, or HTTPError when nothing is served there
urlopen(url) ==
    LET found == { f \in ServerFiles : baseurl(f.dir \o f.name, f.name) = url }
    IN  IF found = {}
        THEN [status |-> "HTTPError", url |-> url, body |-> NoStream]
        ELSE [status |-> "ok", url |-> url,
              body |-> (CHOOSE f \in found : TRUE).content]

(***************************************************************************)
(* _fetch_mesonet_data, the function under the decorator.  `g` is the      *)
(* binding of the global name dt that line 45 reads.                       *)
(***************************************************************************)
Raise(exc) == [status |-> exc, url |-> "", body |-> NoStream]

\* '/%s/%04d/%02d/%02d/' % (data_type, year, month, day)
url_path(data_type, d) ==
    "/" \o data_type \o "/" \o ZeroPad(d.year, 4) \o "/" \o ZeroPad(d.month, 2)
        \o "/" \o ZeroPad(d.day, 2) \o "/"

\* date_time.replace(minute=(dt.minute - dt.minute%5), second=0, microsecond=0)
floor_minute(date_time, g) ==
    [date_time EXCEPT !.minute = g.value.minute - (g.value.minute % 5),
                      !.second = 0, !.microsecond = 0]

fetch_body(date_time, site, g) ==
    IF site = None
    THEN IF g.bound = "unbound" THEN Raise("NameError")
         ELSE IF g.bound = "None" THEN Raise("AttributeError")
         ELSE LET d2 == floor_minute(date_time, g)
                  stamp == strftime_YmdHM(d2)
                  fname == stamp.value \o ".mdf"
              IN  IF stamp.status # "ok" THEN Raise(stamp.status)
                  ELSE urlopen(baseurl(url_path("mdf", d2) \o fname, fname))
    ELSE LET stamp == strftime_Ymd(date_time)
             fname == stamp.value \o lower(site) \o ".mts"
         IN  IF stamp.status # "ok" THEN Raise(stamp.status)
             ELSE urlopen(baseurl(url_path("mts", date_time) \o fname, fname))

(***************************************************************************)
(* @lru_cache(maxsize=20): memoization on the call's arguments.            *)
(***************************************************************************)
\* variant: the bound is compared off by one
maxsize_plus == 20 + 1

maxsize == 20

\* the position of key k in cache c, 0 when absent
lru_index(c, k) ==
    IF \E i \in 1..Len(c) : c[i].key = k
    THEN CHOOSE i \in 1..Len(c) : c[i].key = k
    ELSE 0

lru_remove(c, i) == SubSeq(c, 1, i - 1) \o SubSeq(c, i + 1, Len(c))

\* a new entry goes in as most recent; beyond maxsize the least recent goes
lru_insert(c, k, v) ==
    LET c2 == Append(c, [key |-> k, value |-> v])
    IN  IF Len(c2) > maxsize THEN Tail(c2) ELSE c2

\* one call of the decorated _fetch_mesonet_data(date_time, site):
\* the cache afterwards and the record of the call
fetch(c, g, date_time, site) ==
    LET k == <<date_time, site>>
        i == lru_index(c, k)
    IN  IF i > 0
        THEN [cache |-> Append(lru_remove(c, i), c[i]),
              call |-> [date_time |-> date_time, site |-> site, status |-> "ok",
                        hit |-> TRUE, url |-> "", body |-> c[i].value]]
        ELSE LET r == fetch_body(date_time, site, g)
             IN  [cache |-> IF r.status = "ok" THEN lru_insert(c, k, r.body) ELSE c,
                  call |-> [date_time |-> date_time, site |-> site,
                            status |-> r.status, hit |-> FALSE, url |-> r.url,
                            body |-> r.body]]

(***************************************************************************)
(* Sequence helpers.                                                       *)
(***************************************************************************)
\* the position of x in sequence s, 0 when absent (list.index raises then)
IndexOf(s, x) ==
    IF \E i \in 1..Len(s) : s[i] = x
    THEN CHOOSE i \in 1..Len(s) : s[i] = x /\ \A j \in 1..(i - 1) : s[j] # x
    ELSE 0

Range(s) == { s[i] : i \in 1..Len(s) }

RECURSIVE SelectIdx(_, _, _)
\* the positions i..Len(s) of s whose element is in set S, ascending
SelectIdx(s, S, i) ==
    IF i > Len(s) THEN <<>>
    ELSE IF s[i] \in S THEN <<i>> \o SelectIdx(s, S, i + 1)
    ELSE SelectIdx(s, S, i + 1)

(***************************************************************************)
(* The station table.  mesonet_station_table is the embedded text of       *)
(* GEOMESO.TBL; its data lines are comma separated with the station        *)
(* identifier in column 1, latitude, longitude and elevation in columns    *)
(* 7, 8 and 9 (counting from 0).  Column 0 is the station number.  The     *)
(* data lines are program data: mesonet_stid_info reads them in the order  *)
(* they stand in and nothing in the module sorts them.                     *)
(***************************************************************************)
\* the identifiers that a data line can carry
StationCodes == {2, 4, 6}

\* the data line of a station
StationLine(stid) ==
    CASE stid = 2 -> <<110, 2, 0, 0, 0, 0, 0, 34, -98, 397>>
      [] stid = 4 -> <<  1, 4, 0, 0, 0, 0, 0, 35, -96, 295>>
      [] stid = 6 -> <<116, 6, 0, 0, 0, 0, 0, 36, -99, 439>>

\* the data lines of the text of lines 11-13, which holds its header line
\* only: what is left once loadtxt has skipped its rows
NoStations == <<>>

\* every table text of distinct stations, in every order of its lines,
\* NoStations included
StationTables ==
    UNION { { [i \in 1..n |-> StationLine(p[i])] :
                p \in { q \in [1..n -> StationCodes] :
                           \A i, j \in 1..n : i # j => q[i] # q[j] } } :
            n \in 0..Cardinality(StationCodes) }

\* loadtxt(..., usecols=cols, names=names) with info=None
mesonet_stid_info ==
    LET cols == <<1, 7, 8, 9>>
    IN  [i \in 1..Len(mesonet_station_table) |->
            [stid |-> mesonet_station_table[i][cols[1] + 1],
             Lat  |-> mesonet_station_table[i][cols[2] + 1],
             Lon  |-> mesonet_station_table[i][cols[3] + 1],
             Elev |-> mesonet_station_table[i][cols[4] + 1]]]

RECURSIVE bisect_left(_, _, _, _)
\* numpy's binary search: lo, hi are 0-based bounds of the open range
bisect_left(a, v, lo, hi) ==
    IF lo >= hi THEN lo
    ELSE LET mid == (lo + hi) \div 2
         IN  IF a[mid + 1] < v THEN bisect_left(a, v, mid + 1, hi)
             ELSE bisect_left(a, v, lo, mid)

RECURSIVE bisect_right(_, _, _, _)
bisect_right(a, v, lo, hi) ==
    IF lo >= hi THEN lo
    ELSE LET mid == (lo + hi) \div 2
         IN  IF v < a[mid + 1] THEN bisect_right(a, v, lo, mid)
             ELSE bisect_right(a, v, mid + 1, hi)

\* variant: a.searchsorted(v, side='right')
searchsorted_right(a, v) == bisect_right(a, v, 0, Len(a))

\* variant: the index is clipped to the last row, when there is one
searchsorted_clipped(a, v) ==
    LET i == bisect_left(a, v, 0, Len(a))
    IN  IF i >= Len(a) /\ Len(a) > 0 THEN Len(a) - 1 ELSE i

\* a.searchsorted(v) for one value v: a 0-based insertion index
searchsorted(a, v) == bisect_left(a, v, 0, Len(a))

(***************************************************************************)
(* read_mesonet_data.                                                      *)
(***************************************************************************)
\* str.upper on the field names of the model
upper(s) ==
    CASE s = "stid" -> "STID"
      [] s = "time" -> "TIME"
      [] s = "tair" -> "TAIR"
      [] OTHER -> s

Table(status, names, rows) == [status |-> status, names |-> names, rows |-> rows]

Failed(exc) == Table(exc, <<>>, <<>>)

NoTable == Failed("none")

Cell(v, m) == [data |-> v, mask |-> m]

\* variant: range(BAD_DATA_LIMIT, BAD_DATA_LIMIT-9, -1)
missing_short == { BAD_DATA_LIMIT - i : i \in 0..8 }

\* range(BAD_DATA_LIMIT, BAD_DATA_LIMIT-10, -1)
missing == { BAD_DATA_LIMIT - i : i \in 0..9 }

\* datetime(*args) for a sequence of at most three integers: TypeError when
\* year, month or day is missing, ValueError when they are no date
datetime_ymd(args) ==
    IF Len(args) < 3 THEN [status |-> "TypeError", value |-> NoDate]
    ELSE IF /\ args[1] \in 1..9999
            /\ args[2] \in 1..12
            /\ args[3] >= 1
            /\ args[3] <= DaysInMonth(args[1], args[2])
    THEN [status |-> "ok", value |-> DateTime(args[1], args[2], args[3], 0, 0, 0, 0)]
    ELSE [status |-> "ValueError", value |-> NoDate]

\* variant: datetime(*map(int, info[0:3]))
header_date_off(info) == datetime_ymd(SubSeq(info, 1, IF Len(info) < 3 THEN Len(info) ELSE 3))

\* datetime(*map(int, info[1:4])): the slice holds what tokens there are
header_date(info) == datetime_ymd(SubSeq(info, 2, IF Len(info) < 4 THEN Len(info) ELSE 4))

\* conv['TIME']: lambda t: dt + timedelta(minutes=int(t)); the instant, or
\* OverflowError
conv_TIME(refdate, t) == AddMinutes(refdate, t)

\* mloadtxt(fh, dtype=None, names=True, usecols=fields, skiprows=skip,
\*          converters=conv, missing=missing), reading fh from line `pos`
\* (0-based).  fields = <<>> stands for usecols=None; refdate = NoDate for
\* converters=None.  An exception of a converter ends the call.
mloadtxt(stream, pos, fields, skip, refdate, miss) ==
    IF pos + skip # 2 THEN Failed("ValueError")
    ELSE IF \E i \in 1..Len(fields) : fields[i] \notin Range(stream.names)
    THEN Failed("ValueError")
    ELSE LET keep == IF fields = <<>> THEN [i \in 1..Len(stream.names) |-> i]
                     ELSE SelectIdx(stream.names, Range(fields), 1)
             converted(r, k) ==
                stream.names[keep[k]] = "TIME" /\ refdate # NoDate
             cell(r, k) ==
                LET tok == stream.rows[r][keep[k]]
                IN  Cell(IF converted(r, k)
                         THEN conv_TIME(refdate, tok).value ELSE tok,
                         tok \in miss)
         IN  IF \E r \in 1..Len(stream.rows) : \E k \in 1..Len(keep) :
                   /\ converted(r, k)
                   /\ conv_TIME(refdate, stream.rows[r][keep[k]]).status # "ok"
             THEN Failed("OverflowError")
             ELSE Table("ok",
                        [k \in 1..Len(keep) |-> stream.names[keep[k]]],
                        [r \in 1..Len(stream.rows) |->
                            [k \in 1..Len(keep) |-> cell(r, k)]])

\* lines 214-218
rename_step(t, rename_fields) ==
    IF t.status = "ok" /\ rename_fields
    THEN [t EXCEPT !.names = [k \in 1..Len(t.names) |->
                                 mesonet_inv_var_map(upper(t.names[k]), t.names[k])]]
    ELSE t

\* lines 221-225
time_name_step(t, convert_time) ==
    IF t.status = "ok" /\ convert_time
    THEN LET i == IndexOf(t.names, "TIME")
         IN  IF i = 0 THEN Failed("ValueError")
             ELSE [t EXCEPT !.names[i] = "datetime"]
    ELSE t

\* lines 229-236
lookup_step(t, lookup_stids) ==
    IF t.status = "ok" /\ lookup_stids
    THEN LET sta_table == mesonet_stid_info
             stids == [i \in 1..Len(sta_table) |-> sta_table[i].stid]
             col == IndexOf(t.names, "STID")
         IN  IF col = 0 THEN Failed("ValueError")
             ELSE LET idx == [r \in 1..Len(t.rows) |->
                                 searchsorted(stids, t.rows[r][col].data)]
                  IN  IF \E r \in 1..Len(idx) : idx[r] >= Len(sta_table)
                      THEN Failed("IndexError")
                      ELSE Table("ok",
                                 t.names \o <<"latitude", "longitude", "elevation">>,
                                 [r \in 1..Len(t.rows) |->
                                    t.rows[r] \o
                                    <<Cell(sta_table[idx[r] + 1].Lat, FALSE),
                                      Cell(sta_table[idx[r] + 1].Lon, FALSE),
                                      Cell(sta_table[idx[r] + 1].Elev, FALSE)>>])
    ELSE t

read_mesonet_data(stream, fields, rename_fields, convert_time, lookup_stids) ==
    LET flds == [i \in 1..Len(fields) |-> upper(fields[i])]
        hd == header_date(stream.info)
        refdate == IF convert_time THEN hd.value ELSE NoDate
        pos == IF convert_time THEN 2 ELSE 0
        skip == IF convert_time THEN 0 ELSE 2
    IN  IF convert_time /\ hd.status # "ok" THEN Failed(hd.status)
        ELSE lookup_step(
                 time_name_step(
                     rename_step(mloadtxt(stream, pos, flds, skip, refdate, missing),
                                 rename_fields),
                     convert_time),
                 lookup_stids)

\* numpy.ma.masked: what indexing a masked array gives for a masked element
masked == [masked |-> TRUE]

\* variant of get_last_time: the comparison sees the masked array, so
\* masked cells do not match
get_last_time_masked(t, ref_field, dt_field) ==
    LET ref == IndexOf(t.names, ref_field)
        dtc == IndexOf(t.names, dt_field)
    IN  IF ref = 0 \/ dtc = 0 THEN [status |-> "ValueError", value |-> NoDate]
        ELSE LET sel == { r \in 1..Len(t.rows) :
                            /\ ~t.rows[r][ref].mask
                            /\ t.rows[r][ref].data # FUTURE_OBSERVATION }
             IN  IF sel = {} THEN [status |-> "IndexError", value |-> NoDate]
                 ELSE LET c == t.rows[CHOOSE r \in sel :
                                         \A q \in sel : q <= r][dtc]
                      IN  [status |-> "ok",
                           value |-> IF c.mask THEN masked ELSE c.data]

(***************************************************************************)
(* get_last_time(data, ref_field='TAIR', dt_field='datetime').  The        *)
(* reference column is compared through .data; the datetime column is      *)
(* indexed as the masked array it is.                                      *)
(***************************************************************************)
get_last_time(t, ref_field, dt_field) ==
    LET ref == IndexOf(t.names, ref_field)
        dtc == IndexOf(t.names, dt_field)
    IN  IF ref = 0 \/ dtc = 0 THEN [status |-> "ValueError", value |-> NoDate]
        ELSE LET sel == { r \in 1..Len(t.rows) :
                            t.rows[r][ref].data # FUTURE_OBSERVATION }
             IN  IF sel = {} THEN [status |-> "IndexError", value |-> NoDate]
                 ELSE LET c == t.rows[CHOOSE r \in sel :
                                         \A q \in sel : q <= r][dtc]
                      IN  [status |-> "ok",
                           value |-> IF c.mask THEN masked ELSE c.data]

(***************************************************************************)
(* remote_mesonet_data.  `utcnow` is the value datetime.utcnow() returns   *)
(* during the call.  The result holds the cache afterwards, the records of *)
(* the calls of _fetch_mesonet_data made, and the table returned or the    *)
(* exception raised.                                                       *)
(***************************************************************************)
\* lines 127-134: the table returned; old_data is NoTable when yest is None
remote_join(c, calls, old_data, new_data) ==
    [cache |-> c, calls |-> calls,
     table |-> IF new_data.status # "ok" \/ old_data = NoTable THEN new_data
               ELSE Table("ok", new_data.names, old_data.rows \o new_data.rows)]

\* lines 123-125, given the result f2 of the fetch of line 123
remote_read(f2, opts, calls, old_data) ==
    IF f2.call.status # "ok"
    THEN [cache |-> f2.cache, calls |-> Append(calls, f2.call),
          table |-> Failed(f2.call.status)]
    ELSE remote_join(f2.cache, Append(calls, f2.call), old_data,
                     read_mesonet_data(f2.call.body, opts[1], opts[2], opts[3],
                                       opts[4]))

\* lines 119-120, given the result f1 of the fetch of line 118
remote_old(f1, g, today, site, opts, old_data) ==
    IF old_data.status # "ok"
    THEN [cache |-> f1.cache, calls |-> <<f1.call>>, table |-> old_data]
    ELSE remote_read(fetch(f1.cache, g, today, site), opts, <<f1.call>>, old_data)

\* lines 116-120
remote_yesterday(f1, g, today, site, opts) ==
    IF f1.call.status # "ok"
    THEN [cache |-> f1.cache, calls |-> <<f1.call>>,
          table |-> Failed(f1.call.status)]
    ELSE remote_old(f1, g, today, site, opts,
                    read_mesonet_data(f1.call.body, opts[1], opts[2], opts[3],
                                      opts[4]))

\* lines 116-118, given the result yest of the subtraction of line 116
remote_full_day(c, g, yest, today, site, opts) ==
    IF yest.status # "ok"
    THEN [cache |-> c, calls |-> <<>>, table |-> Failed(yest.status)]
    ELSE remote_yesterday(fetch(c, g, yest.value, site), g, today, site, opts)

\* opts is <<fields, rename_fields, convert_time, lookup_stids>>
remote_mesonet_data(c, g, utcnow, date_time, site, opts, full_day_record) ==
    IF date_time = NoDate
    THEN IF full_day_record
         THEN remote_full_day(c, g, SubDays(utcnow, 1), utcnow, site, opts)
         ELSE remote_read(fetch(c, g, utcnow, site), opts, <<>>, NoTable)
    ELSE remote_read(fetch(c, g, date_time, site), opts, <<>>, NoTable)

(***************************************************************************)
(* Inputs of the model.                                                    *)
(***************************************************************************)
Sites == {None, "nrmn", "NRMN"}

\* two instants of one 5-minute window and one of the next
FetchTimes ==
    { DateTime(2008, 11, 20, 0, 1, 0, 0),
      DateTime(2008, 11, 20, 0, 3, 30, 7),
      DateTime(2008, 11, 20, 0, 7, 0, 0) }

\* what utcnow() may return, and the date a caller may pass
Nows == { DateTime(2008, 11, 20, 0, 3, 30, 7) }
GivenDates == { DateTime(2008, 11, 20, 0, 0, 0, 0) }

\* the global name dt is bound only by the script section (line 302 or 304),
\* which never runs when the module is imported
DtUnbound == [bound |-> "unbound", value |-> NoDate]

\* (rename_fields, convert_time, lookup_stids)
ReadFlags == BOOLEAN \X BOOLEAN \X BOOLEAN
RemoteFlags == { <<FALSE, TRUE, TRUE>>, <<FALSE, TRUE, FALSE>>, <<FALSE, FALSE, FALSE>> }

FieldLists == { <<>>, <<"stid", "tair">>, <<"time", "tair">> }

StidTokens == {2, 3, 6, 7}
TimeTokens == {0, 65}
TairTokens == {-1000, -999, -996, -990, -989}

NoOut == [called |-> FALSE, date_time |-> NoDate, site |-> None,
          full_day_record |-> FALSE, flags |-> <<FALSE, FALSE, FALSE>>,
          utcnow |-> NoDate, nfetch |-> 0, upto |-> 0, table |-> NoTable]

NoData == [called |-> FALSE, fields |-> <<>>, flags |-> <<FALSE, FALSE, FALSE>>,
           table |-> NoTable]

NoLast == [called |-> FALSE, status |-> "none", value |-> NoDate]

ClockStart == DateTime(2008, 11, 20, 0, 0, 0, 0)

(***************************************************************************)
(* Specification Spec: callers of _fetch_mesonet_data and of               *)
(* remote_mesonet_data, over a few instants and sites.                     *)
(***************************************************************************)
Init ==
    /\ dt = DtUnbound
    /\ cache = <<>>
    /\ log = <<>>
    /\ out = NoOut
    /\ fh = NoStream
    /\ data = NoData
    /\ last = NoLast
    /\ now = ClockStart
    /\ replays = 0
    /\ lastUse = <<>>
    /\ mesonet_station_table = NoStations

Fetch ==
    /\ Len(log) < MaxCalls
    /\ \E date_time \in FetchTimes, site \in Sites :
          LET f == fetch(cache, dt, date_time, site)
          IN  /\ cache' = f.cache
              /\ log' = Append(log, f.call)
    /\ UNCHANGED <<mesonet_station_table, dt, out, fh, data, last, now, replays, lastUse>>

Remote ==
    /\ Len(log) + 2 <= MaxCalls
    /\ \E utcnow \in Nows, date_time \in GivenDates \cup {NoDate}, site \in Sites,
          flags \in RemoteFlags, full_day_record \in BOOLEAN :
          LET r == remote_mesonet_data(cache, dt, utcnow, date_time, site,
                                       <<<<>>, flags[1], flags[2], flags[3]>>,
                                       full_day_record)
          IN  /\ cache' = r.cache
              /\ log' = log \o r.calls
              /\ out' = [called |-> TRUE, date_time |-> date_time, site |-> site,
                         full_day_record |-> full_day_record, flags |-> flags,
                         utcnow |-> utcnow, nfetch |-> Len(r.calls),
                         upto |-> Len(log) + Len(r.calls), table |-> r.table]
    /\ UNCHANGED <<mesonet_station_table, dt, fh, data, last, now, replays, lastUse>>

Next == Fetch \/ Remote

Spec == Init /\ [][Next]_vars

(***************************************************************************)
(* Specification SpecRead: a caller writes a file and reads it with        *)
(* read_mesonet_data, then asks for the last observation time.             *)
(***************************************************************************)
InitRead ==
    /\ dt = DtUnbound
    /\ cache = <<>>
    /\ log = <<>>
    /\ out = NoOut
    /\ fh \in { Stream("input", InfoLine(d), FileColumns, <<>>) : d \in {19, 20} }
    /\ data = NoData
    /\ last = NoLast
    /\ now = ClockStart
    /\ replays = 0
    /\ lastUse = <<>>
    /\ mesonet_station_table = NoStations

WriteRow ==
    /\ ~data.called
    /\ Len(fh.rows) < MaxRows
    /\ \E stid \in StidTokens, t \in TimeTokens, tair \in TairTokens :
          fh' = [fh EXCEPT !.rows = Append(@, <<stid, t, tair>>)]
    /\ UNCHANGED <<mesonet_station_table, dt, cache, log, out, data, last, now, replays, lastUse>>

Read ==
    /\ ~data.called
    /\ \E fields \in FieldLists, flags \in ReadFlags :
          data' = [called |-> TRUE, fields |-> fields, flags |-> flags,
                   table |-> read_mesonet_data(fh, fields, flags[1], flags[2],
                                               flags[3])]
    /\ UNCHANGED <<mesonet_station_table, dt, cache, log, out, fh, last, now, replays, lastUse>>

GetLast ==
    /\ data.called
    /\ data.table.status = "ok"
    /\ ~last.called
    /\ LET r == get_last_time(data.table, "TAIR", "datetime")
       IN  last' = [called |-> TRUE, status |-> r.status, value |-> r.value]
    /\ UNCHANGED <<mesonet_station_table, dt, cache, log, out, fh, data, now, replays, lastUse>>

NextRead == WriteRow \/ Read \/ GetLast

SpecRead == InitRead /\ [][NextRead]_vars

(***************************************************************************)
(* Specification SpecTable: the station lookup as a function of the table  *)
(* text.  The module carries some station table text; a caller writes a    *)
(* file of station rows and reads it with the station lookup.              *)
(***************************************************************************)
\* (rename_fields, convert_time, lookup_stids)
LookupFlags == { <<FALSE, TRUE, TRUE>>, <<FALSE, FALSE, TRUE>>, <<TRUE, TRUE, TRUE>> }

InitTable ==
    /\ dt = DtUnbound
    /\ cache = <<>>
    /\ log = <<>>
    /\ out = NoOut
    /\ fh = Stream("input", InfoLine(20), FileColumns, <<>>)
    /\ data = NoData
    /\ last = NoLast
    /\ now = ClockStart
    /\ replays = 0
    /\ lastUse = <<>>
    /\ mesonet_station_table \in StationTables

WriteStation ==
    /\ ~data.called
    /\ Len(fh.rows) < MaxRows
    /\ \E stid \in StidTokens, t \in TimeTokens :
          fh' = [fh EXCEPT !.rows = Append(@, <<stid, t, 18>>)]
    /\ UNCHANGED <<mesonet_station_table, dt, cache, log, out, data, last, now,
                   replays, lastUse>>

ReadLookup ==
    /\ ~data.called
    /\ \E flags \in LookupFlags :
          data' = [called |-> TRUE, fields |-> <<>>, flags |-> flags,
                   table |-> read_mesonet_data(fh, <<>>, flags[1], flags[2],
                                               flags[3])]
    /\ UNCHANGED <<mesonet_station_table, dt, cache, log, out, fh, last, now,
                   replays, lastUse>>

NextTable == WriteStation \/ ReadLookup

SpecTable == InitTable /\ [][NextTable]_vars

(***************************************************************************)
(* Specification SpecLRU: a client that polls one station's file at every  *)
(* tick of the clock (date_time = utcnow()) and now and then asks again    *)
(* for an explicit date.                                                   *)
(***************************************************************************)
GivenLRU == { ClockStart, AddMinutes(ClockStart, 1).value }

Used(use, k, n) ==
    [x \in DOMAIN use \cup {k} |-> IF x = k THEN n ELSE use[x]]

InitLRU ==
    /\ dt = DtUnbound
    /\ cache = <<>>
    /\ log = <<>>
    /\ out = NoOut
    /\ fh = NoStream
    /\ data = NoData
    /\ last = NoLast
    /\ now = ClockStart
    /\ replays = 0
    /\ lastUse = <<>>
    /\ mesonet_station_table = NoStations

FetchNow ==
    /\ now.minute < MaxTicks
    /\ LET f == fetch(cache, dt, now, "nrmn")
       IN  /\ cache' = f.cache
           /\ log' = <<f.call>>
           /\ lastUse' = Used(lastUse, <<now, "nrmn">>, now.minute + replays + 1)
    /\ now' = AddMinutes(now, 1).value
    /\ UNCHANGED <<mesonet_station_table, dt, out, fh, data, last, replays>>

FetchGiven ==
    /\ replays < MaxReplays
    /\ \E date_time \in GivenLRU :
          LET f == fetch(cache, dt, date_time, "nrmn")
          IN  /\ cache' = f.cache
              /\ log' = <<f.call>>
              /\ lastUse' = Used(lastUse, <<date_time, "nrmn">>,
                                 now.minute + replays + 1)
    /\ replays' = replays + 1
    /\ UNCHANGED <<mesonet_station_table, dt, out, fh, data, last, now>>

NextLRU == FetchNow \/ FetchGiven

SpecLRU == InitLRU /\ [][NextLRU]_vars

(***************************************************************************)
(* Properties.  The expected values below are written from the file        *)
(* format and the documented behaviour, not from the operators above.      *)
(***************************************************************************)
CacheKeys == { cache[i].key : i \in 1..Len(cache) }

\* the cache key the documentation of the cache asks for: the instant floored
\* to its 5-minute window for a snapshot, the calendar day for a time series
FlooredKey(date_time, site) ==
    IF site = None
    THEN <<[date_time EXCEPT !.minute = date_time.minute - (date_time.minute % 5),
                             !.second = 0, !.microsecond = 0], site>>
    ELSE <<[date_time EXCEPT !.hour = 0, !.minute = 0, !.second = 0,
                             !.microsecond = 0], site>>

\* C1: two calls that both return and whose instants floor to the same key
\* (same 5-minute window without a station, same day with one) cost one
\* network request: the second is served from the cache with the same bytes.
C1_FlooredKeyCache ==
    \A i, j \in 1..Len(log) :
        ( /\ i < j
          /\ log[i].status = "ok"
          /\ log[j].status = "ok"
          /\ FlooredKey(log[i].date_time, log[i].site)
                = FlooredKey(log[j].date_time, log[j].site) )
        => (log[j].hit /\ log[j].url = "" /\ log[j].body = log[i].body)

\* the URL the instants of this model must lead to
ExpectedUrl(date_time, site) ==
    LET ymd == IF date_time.day = 19 THEN "20081119" ELSE "20081120"
        dd == IF date_time.day = 19 THEN "19" ELSE "20"
        hm == IF date_time.minute < 5 THEN "0000" ELSE "0005"
        kind == IF site = None THEN "mdf" ELSE "mts"
        name == IF site = None THEN ymd \o hm \o ".mdf" ELSE ymd \o "nrmn.mts"
    IN  "http://www.mesonet.org/public/data/getfile.php?dir=/" \o kind
            \o "/2008/11/" \o dd \o "/" \o name \o "&filename=" \o name

\* C3: every call that reaches the function body completes, and requests the
\* snapshot file of the floored instant (no station) or the day file of the
\* lower-cased station.
C3_RequestBuilt ==
    \A i \in 1..Len(log) :
        ~log[i].hit =>
            /\ log[i].status = "ok"
            /\ log[i].url = ExpectedUrl(log[i].date_time, log[i].site)

\* C6: without a date and with full_day_record, yesterday's and today's files
\* are fetched and parsed with the same options and the rows of the first are
\* followed by the rows of the second; otherwise one fetch, one table.
C6_Assembly ==
    out.called =>
        LET n == out.upto
            parse(b) == read_mesonet_data(b, <<>>, out.flags[1], out.flags[2],
                                          out.flags[3])
        IN  IF out.date_time = NoDate /\ out.full_day_record
            THEN /\ out.nfetch = 2
                 /\ out.table.status = "ok"
                 /\ log[n - 1].date_time = SubDays(out.utcnow, 1).value
                 /\ log[n].date_time = out.utcnow
                 /\ LET y == parse(log[n - 1].body)
                        t == parse(log[n].body)
                    IN  /\ Len(out.table.rows) = Len(y.rows) + Len(t.rows)
                        /\ SubSeq(out.table.rows, 1, Len(y.rows)) = y.rows
                        /\ SubSeq(out.table.rows, Len(y.rows) + 1,
                                  Len(out.table.rows)) = t.rows
            ELSE /\ out.nfetch = 1
                 /\ out.table.status = "ok"
                 /\ out.table = parse(log[n].body)

(***************************************************************************)
(* Properties of the LRU cache, under SpecLRU.                             *)
(***************************************************************************)
Min(a, b) == IF a < b THEN a ELSE b

\* at most 20 entries, and they are the most recently used keys, least
\* recent first
LRUState ==
    /\ Len(cache) <= 20
    /\ Len(cache) = Min(20, Cardinality(DOMAIN lastUse))
    /\ CacheKeys \subseteq DOMAIN lastUse
    /\ \A i, j \in 1..Len(cache) :
          i < j => lastUse[cache[i].key] < lastUse[cache[j].key]
    /\ \A k \in DOMAIN lastUse : \A c \in CacheKeys :
          k \notin CacheKeys => lastUse[k] < lastUse[c]

\* a call whose key is in the cache returns the cached bytes and sends nothing;
\* a call whose key is not in the cache sends one request
LRUStep ==
    (log' # log \/ cache' # cache) =>
        LET k == <<log'[1].date_time, log'[1].site>>
        IN  IF k \in CacheKeys
            THEN /\ log'[1].url = ""
                 /\ log'[1].status = "ok"
                 /\ log'[1].body = cache[lru_index(cache, k)].value
                 /\ CacheKeys' = CacheKeys
            ELSE /\ log'[1].url # ""
                 /\ k \in CacheKeys'

\* C2: the cache never holds more than 20 entries, the entry dropped for a
\* 21st key is the least recently used one (a hit is a use), and a call with
\* a cached key sends no request.
C2_LRU == []LRUState /\ [][LRUStep]_vars

\* C2 witness: the cache is full, a key has been dropped, the oldest key was
\* kept by a hit while a younger one went, and the last call was a hit
C2_Witness ==
    /\ Len(cache) = 20
    /\ Cardinality(DOMAIN lastUse) > 20
    /\ <<ClockStart, "nrmn">> \in CacheKeys
    /\ <<AddMinutes(ClockStart, 1).value, "nrmn">> \notin CacheKeys
    /\ Len(log) = 1
    /\ log[1].hit

(***************************************************************************)
(* Properties of read_mesonet_data and get_last_time, under SpecRead; the  *)
(* properties of the station lookup are checked under SpecTable.  fh holds *)
(* the file as written: row r is <<STID, TIME, TAIR>>.                     *)
(***************************************************************************)
\* the position of a file column in the table read, 0 when not selected
Col(name) == IndexOf(data.table.names, name)

\* the file column that table column k was read from
FileCol(k) ==
    IF data.fields = <<>> THEN k
    ELSE IF data.fields = <<"stid", "tair">> THEN (IF k = 1 THEN 1 ELSE 3)
    ELSE k + 1

\* the instant `minutes` after midnight of the file's day, for the TIME
\* values of this model
Instant(day, minutes) ==
    IF minutes = 0 THEN DateTime(2008, 11, day, 0, 0, 0, 0)
    ELSE DateTime(2008, 11, day, 1, 5, 0, 0)

\* C4: a cell is marked invalid exactly when its raw value is one of
\* -990, -991, ..., -999, whatever its column; -996 is among them.
C4_MissingBand ==
    (data.called /\ data.table.status = "ok") =>
        /\ Len(data.table.rows) = Len(fh.rows)
        /\ \A r \in 1..Len(fh.rows) :
              \A k \in 1..(IF data.fields = <<>> THEN 3 ELSE 2) :
                 data.table.rows[r][k].mask
                    = (fh.rows[r][FileCol(k)] \in {-990, -991, -992, -993, -994,
                                                   -995, -996, -997, -998, -999})

\* C4 witness: a file with -999 in one row and -989 in the next was read; the
\* first cell is marked, the second is not
C4_Witness ==
    /\ data.called
    /\ data.table.status = "ok"
    /\ Len(fh.rows) = 2
    /\ fh.rows[1][3] = -999
    /\ fh.rows[2][3] = -989
    /\ Col("TAIR") > 0
    /\ data.table.rows[1][Col("TAIR")].mask
    /\ ~data.table.rows[2][Col("TAIR")].mask

\* the rows of the file whose TAIR value is not -996
Observed == { r \in 1..Len(fh.rows) : fh.rows[r][3] # -996 }

\* C5: get_last_time returns the instant of the last row, in row order, whose
\* raw TAIR value is not -996, masked or not; it fails only when there is no
\* such row.
C5_LastObserved ==
    (last.called /\ Col("TAIR") > 0 /\ Col("datetime") > 0) =>
        IF Observed = {}
        THEN last.status = "IndexError"
        ELSE /\ last.status = "ok"
             /\ LET r == CHOOSE x \in Observed : \A y \in Observed : y <= x
                IN  last.value = Instant(fh.info[4], fh.rows[r][2])

\* C5 witness: the first row is later than the second and holds the masked
\* value -990, the second row holds -996; the first row's instant is returned
C5_Witness ==
    /\ last.called
    /\ last.status = "ok"
    /\ Len(fh.rows) = 2
    /\ fh.rows[1] = <<2, 65, -990>>
    /\ fh.rows[2] = <<2, 0, -996>>
    /\ last.value = DateTime(2008, 11, fh.info[4], 1, 5, 0, 0)

\* C7 as stated: every valid file read with convert_time gives a table whose
\* rows carry the date of header line 2 plus the row's TIME minutes, under
\* the name "datetime" and with no column "TIME" left.
C7_AlwaysConverted ==
    (data.called /\ data.flags[2] /\ ~data.flags[3]) =>
        /\ data.table.status = "ok"
        /\ Col("datetime") > 0
        /\ Col("TIME") = 0
        /\ Len(data.table.rows) = Len(fh.rows)
        /\ \A r \in 1..Len(fh.rows) :
              data.table.rows[r][Col("datetime")].data
                 = Instant(fh.info[4], fh.rows[r][2])

\* the columns read include TIME: all columns, or a list that names it
ReadsTime == data.fields = <<>> \/ \E i \in 1..Len(data.fields) : data.fields[i] = "time"

\* C7 amended: with convert_time and TIME among the columns read, every row's
\* instant is the date of header line 2 plus the row's TIME minutes, under the
\* name "datetime" and with no column "TIME" left; with convert_time and TIME
\* left out of the columns read the call raises ValueError; without
\* convert_time TIME keeps its name and its raw minutes.  Apart from that
\* ValueError a read without the station lookup always succeeds.
C7_TimeConversion ==
    data.called =>
        /\ (data.flags[2] /\ ~ReadsTime) => data.table.status = "ValueError"
        /\ (~data.flags[3] /\ (ReadsTime \/ ~data.flags[2]))
              => data.table.status = "ok"
        /\ (data.table.status = "ok" /\ data.flags[2]) =>
              /\ Col("datetime") > 0
              /\ Col("TIME") = 0
              /\ Len(data.table.rows) = Len(fh.rows)
              /\ \A r \in 1..Len(fh.rows) :
                    data.table.rows[r][Col("datetime")].data
                       = Instant(fh.info[4], fh.rows[r][2])
        /\ (data.table.status = "ok" /\ ~data.flags[2]) =>
              /\ Col("datetime") = 0
              /\ Len(data.table.rows) = Len(fh.rows)
              /\ (data.fields # <<"stid", "tair">>) =>
                    /\ Col("TIME") > 0
                    /\ \A r \in 1..Len(fh.rows) :
                          data.table.rows[r][Col("TIME")].data = fh.rows[r][2]

\* C7 witness: a two-row file was read with convert_time; the row with
\* TIME 65 carries 01:05 of the file's day
C7_Witness ==
    /\ data.called
    /\ data.flags[2]
    /\ data.table.status = "ok"
    /\ Len(fh.rows) = 2
    /\ fh.rows[2][2] = 65
    /\ fh.info[4] = 19
    /\ data.table.rows[2][Col("datetime")].data = DateTime(2008, 11, 19, 1, 5, 0, 0)

\* the table text has its lines in ascending order of identifier
TableSorted ==
    \A i, j \in 1..Len(mesonet_station_table) :
        i < j => mesonet_station_table[i][2] < mesonet_station_table[j][2]

\* the identifiers of the station table and what is stored for each
StationIds == { mesonet_station_table[i][2] : i \in 1..Len(mesonet_station_table) }

Stored(id) ==
    LET i == CHOOSE x \in 1..Len(mesonet_station_table) :
                mesonet_station_table[x][2] = id
    IN  <<mesonet_station_table[i][8], mesonet_station_table[i][9],
          mesonet_station_table[i][10]>>

\* the three cells the lookup appended to row r
Appended(r) ==
    <<data.table.rows[r][Col("latitude")].data,
      data.table.rows[r][Col("longitude")].data,
      data.table.rows[r][Col("elevation")].data>>

\* the call gets as far as the lookup and finds the STID column
LookupReached ==
    /\ data.called
    /\ data.flags[3]
    /\ ~data.flags[1]
    /\ data.fields # <<"time", "tair">>
    /\ data.flags[2] => data.fields = <<>>

C9_RenameAndLookup ==
    ( /\ data.called
      /\ data.flags[1]
      /\ data.flags[3]
      /\ data.fields = <<>>
      /\ \A r \in 1..Len(fh.rows) : fh.rows[r][1] \in StationIds )
    => /\ data.table.status = "ok"
       /\ data.table.names
             = <<"site", IF data.flags[2] THEN "datetime" ELSE "TIME",
                 "temperature", "latitude", "longitude", "elevation">>

\* C10 as stated: whatever identifiers the file holds, a lookup that is
\* reached returns a table.
C10_AbsentIdNeverRaises ==
    LookupReached => data.table.status = "ok"

\* the smallest identifier of the table that is not below v
NextId(v) ==
    CHOOSE id \in StationIds :
        id >= v /\ \A other \in StationIds : other >= v => id <= other

\* C10 amended: with the table text in ascending order of identifier, an
\* identifier that is not in the table and sorts before some identifier of
\* the table silently gets the values of the next one; if any row's
\* identifier sorts after every identifier of the table the call raises
\* IndexError.
C10_AbsentIdOutcome ==
    (TableSorted /\ LookupReached) =>
        IF \E r \in 1..Len(fh.rows) : \A id \in StationIds : fh.rows[r][1] > id
        THEN data.table.status = "IndexError"
        ELSE /\ data.table.status = "ok"
             /\ \A r \in 1..Len(fh.rows) :
                   fh.rows[r][1] \notin StationIds
                      => Appended(r) = Stored(NextId(fh.rows[r][1]))

\* C10 witness: identifier 3 is not in the table of three stations; its row
\* got the values stored for 4
C10_Witness ==
    /\ Len(mesonet_station_table) = 3
    /\ TableSorted
    /\ LookupReached
    /\ data.table.status = "ok"
    /\ Len(fh.rows) = 2
    /\ fh.rows[2][1] = 3
    /\ Appended(2) = <<35, -96, 295>>

====
